---- MODULE Spec2Model ----
(***************************************************************************)
(* KooliForum: the post route handlers (DELETE, PUT on /api/posts/{id}),   *)
(* the vote / list / membership endpoints they sit beside, and the         *)
(* PostList client component (fetchPosts, handleVote, handleEdit,          *)
(* handleSaveEdit, handleDelete).                                          *)
(*                                                                         *)
(* The database driver is taken to answer every operation; a request of    *)
(* the component can still be lost on the network (fetch rejects), and a   *)
(* membership lookup can resolve with a color, resolve without one, or     *)
(* reject.  A handler invocation is a task that moves from its request     *)
(* ("req") over the response ("resp") into fetchPosts ("get", "got",       *)
(* "colors"); several invocations can be in flight at once.                *)
(***************************************************************************)
EXTENDS Integers, FiniteSets, Sequences, TLC

\* ------------------------------------------------------------------ bounds
MaxClock == 2      \* successful edits whose time stamps are told apart
MaxTasks == 2      \* handler invocations of the component in flight at once
MaxOps   == 2      \* user / environment initiated operations in one run

\* ------------------------------------------------------------- value sets
PostIds     == {"p1", "p2"}        \* well-formed ids of the posts created externally
AbsentId    == "p9"                \* well-formed id that no post ever has
MalformedId == "zz"                \* not a 24 character hex string
EmptyId     == ""                  \* pathname ends with '/'
Ids         == PostIds \cup {AbsentId, MalformedId, EmptyId}
Users       == {"u1", "u2"}
Undefined   == "<undefined>"       \* a field missing from a JSON body / an unset map entry
Null        == 0                   \* vote: null
Votes       == {1, -1, Null}
\* JSON bodies of a PUT: complete, or with one field empty or missing
Bodies      == {<<"a", "x">>, <<"", "x">>, <<Undefined, "x">>, <<"a", "">>, <<"a", Undefined>>,
                <<Undefined, Undefined>>}
Slugs       == {"d1", "d2"}
NoPost      == "null"              \* editingPost: null
Slots       == 1..MaxTasks

\* ------------------------------------------------------------------- state
VARIABLES
    store,        \* the "posts" collection: a set of documents
    clock,        \* the server's clock: new Date() is clock + 1, later at every edit
    http,         \* the last request a route handler answered, with its status
    viewMode, dramaSlug, currentUser,          \* PostListProps
    posts, loading, userVotes, dramaColors,    \* useState of PostList
    editingPost, editTitle, editContent,       \* useState of PostList (draft)
    alerts,       \* number of alert() dialogs shown, modulo 2
    tasks,        \* the async handler invocations in flight
    ops,          \* operations started so far
    tog           \* observer of a double toggle by the list component

serverVars == <<store, clock, http>>
propVars   == <<viewMode, dramaSlug, currentUser>>
listVars   == <<posts, loading, userVotes, dramaColors>>
draftVars  == <<editingPost, editTitle, editContent>>
clientVars == <<viewMode, dramaSlug, currentUser, posts, loading, userVotes, dramaColors,
                editingPost, editTitle, editContent, alerts, tasks, ops, tog>>
vars == <<store, clock, http, viewMode, dramaSlug, currentUser, posts, loading, userVotes,
          dramaColors, editingPost, editTitle, editContent, alerts, tasks, ops, tog>>

\* ------------------------------------------------------------ the documents
RECURSIVE SumVotes(_)
SumVotes(voters) ==
    IF voters = {} THEN 0
    ELSE LET r == CHOOSE x \in voters : TRUE
         IN  r.vote + SumVotes(voters \ {r})

Post(id, author, slug) ==
    [_id |-> id, title |-> "t", content |-> "c", editedAt |-> 0,
     votes |-> 0, voters |-> {}, author |-> author, dramaSlug |-> slug]

InitialStore == {Post("p1", "u1", "d1"), Post("p2", "u2", "d2")}

FindById(st, id) == {d \in st : d._id = id}

\* new ObjectId(id) throws for a string that is not 24 hex characters
ObjectIdThrows(id) == id = MalformedId

Falsy(v) == v \in {Undefined, ""}

\* ------------------------------------------------------- the route handlers
DELETE(st, id) ==
    IF id = EmptyId THEN [status |-> 400, store |-> st]
    ELSE IF ObjectIdThrows(id) THEN [status |-> 500, store |-> st]
    ELSE LET match == FindById(st, id)
         IN  IF match = {} THEN [status |-> 404, store |-> st]
             ELSE [status |-> 200, store |-> st \ match]

\* mutant: the write is issued before title and content are looked at
PutWritesBeforeValidation(st, id, title, content, now) ==
    IF id = EmptyId THEN [status |-> 400, store |-> st]
    ELSE LET match   == IF ObjectIdThrows(id) THEN {} ELSE FindById(st, id)
             written == (st \ match) \cup
                        {[d EXCEPT !.title = title, !.content = content, !.editedAt = now]
                           : d \in match}
         IN  IF Falsy(title) \/ Falsy(content) THEN [status |-> 400, store |-> written]
             ELSE IF ObjectIdThrows(id) THEN [status |-> 500, store |-> st]
             ELSE IF match = {} THEN [status |-> 404, store |-> st]
             ELSE [status |-> 200, store |-> written]

\* mutant: the document is replaced instead of $set, losing votes and voters
PutReplacesDocument(st, id, title, content, now) ==
    IF id = EmptyId THEN [status |-> 400, store |-> st]
    ELSE IF Falsy(title) \/ Falsy(content) THEN [status |-> 400, store |-> st]
    ELSE IF ObjectIdThrows(id) THEN [status |-> 500, store |-> st]
    ELSE LET match == FindById(st, id)
         IN  IF match = {} THEN [status |-> 404, store |-> st]
             ELSE [status |-> 200,
                   store  |-> (st \ match) \cup
                              {[d EXCEPT !.title = title, !.content = content,
                                         !.editedAt = now, !.votes = 0, !.voters = {}]
                                 : d \in match}]

PUT(st, id, title, content, now) ==
    IF id = EmptyId THEN [status |-> 400, store |-> st]
    ELSE IF Falsy(title) \/ Falsy(content) THEN [status |-> 400, store |-> st]
    ELSE IF ObjectIdThrows(id) THEN [status |-> 500, store |-> st]
    ELSE LET match == FindById(st, id)
         IN  IF match = {} THEN [status |-> 404, store |-> st]
             ELSE [status |-> 200,
                   store  |-> (st \ match) \cup
                              {[d EXCEPT !.title = title, !.content = content,
                                         !.editedAt = now] : d \in match}]

\* POST /api/posts/vote
VoterOf(post, userId) == {r \in post.voters : r.userId = userId}

OldValue(post, userId) == SumVotes(VoterOf(post, userId))

\* mutant: a changed vote is added to the count without taking the old one off
ApplyVoteKeepsOldInCount(post, userId, vote) ==
    LET old == OldValue(post, userId)
    IN  IF vote = Null
        THEN [post EXCEPT !.voters = post.voters \ VoterOf(post, userId),
                          !.votes  = post.votes - old]
        ELSE IF vote = old THEN post
        ELSE [post EXCEPT !.voters = (post.voters \ VoterOf(post, userId))
                                       \cup {[userId |-> userId, vote |-> vote]},
                          !.votes  = post.votes + vote]

ApplyVote(post, userId, vote) ==
    LET old == OldValue(post, userId)
    IN  IF vote = Null
        THEN [post EXCEPT !.voters = post.voters \ VoterOf(post, userId),
                          !.votes  = post.votes - old]
        ELSE IF vote = old THEN post
        ELSE [post EXCEPT !.voters = (post.voters \ VoterOf(post, userId))
                                       \cup {[userId |-> userId, vote |-> vote]},
                          !.votes  = post.votes + (vote - old)]

VOTE(st, postId, userId, vote) ==
    LET match == FindById(st, postId)
    IN  IF match = {} THEN [status |-> 404, store |-> st]
        ELSE [status |-> 200,
              store  |-> (st \ match) \cup {ApplyVote(d, userId, vote) : d \in match}]

\* GET /api/posts?userId=&dramaSlug=
ListPosts(st, mode, user, slug) ==
    IF mode = "my-posts" THEN {d \in st : d.author = user}
    ELSE IF mode = "drama" /\ slug # "" THEN {d \in st : d.dramaSlug = slug}
    ELSE st

Log(method, id, title, content, userId, vote, status) ==
    [method |-> method, id |-> id, title |-> title,
     content |-> content, userId |-> userId, vote |-> vote, status |-> status]

NoLog ==
    [method |-> "none", id |-> "", title |-> Undefined,
     content |-> Undefined, userId |-> "", vote |-> Null, status |-> 0]

\* ---------------------------------------------- requests of any HTTP client
ApiDelete(id) ==
    LET r == DELETE(store, id)
    IN  /\ store' = r.store
        /\ http' = Log("DELETE", id, Undefined, Undefined, "", Null, r.status)
        /\ UNCHANGED clock

ApiPut(id, title, content) ==
    LET r == PUT(store, id, title, content, clock + 1)
    IN  /\ r.status = 200 => clock < MaxClock
        /\ store' = r.store
        /\ http' = Log("PUT", id, title, content, "", Null, r.status)
        /\ clock' = IF r.status = 200 THEN clock + 1 ELSE clock

ApiVote(id, userId, vote) ==
    LET r == VOTE(store, id, userId, vote)
    IN  /\ store' = r.store
        /\ http' = Log("VOTE", id, Undefined, Undefined, userId, vote, r.status)
        /\ UNCHANGED clock

ServerInit ==
    /\ store = InitialStore
    /\ clock = 0
    /\ http = NoLog

ServerNext ==
    \/ (\E id \in Ids : ApiDelete(id)) /\ UNCHANGED clientVars
    \/ (\E id \in Ids, b \in Bodies : ApiPut(id, b[1], b[2])) /\ UNCHANGED clientVars
    \/ (\E id \in PostIds, u \in Users, v \in Votes : ApiVote(id, u, v)) /\ UNCHANGED clientVars

\* ------------------------------------------------- the PostList component
NoColors == [s \in Slugs |-> Undefined]

\* GET /api/dramas/{slug}/membership?userId= : the {color} of the membership
MemberColor(slug) == IF slug = "d1" THEN "red" ELSE "blue"

IdleTask ==
    [kind |-> "idle", pc |-> "idle", postId |-> "", dir |-> 0, vote |-> Null,
     title |-> Undefined, content |-> Undefined, status |-> 0,
     data |-> {}, pending |-> {}, colors |-> NoColors]

FetchTask == [IdleTask EXCEPT !.kind = "fetch", !.pc = "get"]

TogNone == [stage |-> 0, task |-> 0, postId |-> "", dir |-> 0, votes |-> 0, voters |-> {}]

FreeSlot(t) == tasks[t].kind = "idle"

\* a new invocation takes the first free slot
Lowest(t) == FreeSlot(t) /\ \A s \in Slots : s < t => ~FreeSlot(s)

Displayed(id) == loading = FALSE /\ \E d \in posts : d._id = id

\* userVotes[postId], 0 standing for undefined
UserVote(uv, id) == IF id \in DOMAIN uv THEN uv[id] ELSE 0

\* lines 63-69: the votes object built from the fetched posts
VotesOf(data, user) ==
    LET voted == {d \in data : \E r \in d.voters : r.userId = user}
    IN  [id \in {d._id : d \in voted} |->
            LET d == CHOOSE x \in voted : x._id = id
            IN  (CHOOSE r \in d.voters : r.userId = user).vote]

\* line 46 and the "if (slug)" of line 51
UniqueDramas(data) == {d.dramaSlug : d \in data} \ {""}

\* mutant: the requested direction is sent whatever the held vote
NewVoteNeverNull(uv, postId, vote) == vote

\* line 139
NewVote(uv, postId, vote) == IF UserVote(uv, postId) = vote THEN Null ELSE vote

\* the observer of a double toggle: a foreign change of the store, or any other
\* handler started meanwhile, ends the observation
TogForeign == IF tog.stage > 0 THEN TogNone ELSE tog

TogEnd(t, happy) ==
    IF tog.stage \in {1, 3} /\ tog.task = t
    THEN IF happy THEN [tog EXCEPT !.stage = tog.stage + 1] ELSE TogNone
    ELSE tog

TogClick(t, postId, vote) ==
    LET mine == FindById(store, postId)
    IN  IF tog.stage = 2 /\ tog.postId = postId /\ tog.dir = vote
        THEN [tog EXCEPT !.stage = 3, !.task = t]
        ELSE IF /\ tog.stage \in {0, 4}
                /\ mine # {}
                /\ \A d \in mine : VoterOf(d, currentUser) = {}
                /\ UserVote(userVotes, postId) = 0
                /\ \A s \in Slots : FreeSlot(s)
        THEN LET d == CHOOSE x \in mine : TRUE
             IN  [stage |-> 1, task |-> t, postId |-> postId, dir |-> vote,
                  votes |-> d.votes, voters |-> d.voters]
        ELSE TogNone

\* useEffect(() => { fetchPosts() }, [viewMode, currentUser.id, refreshKey, dramaSlug])
Effect(t) ==
    /\ Lowest(t) /\ ops < MaxOps
    /\ tasks' = [tasks EXCEPT ![t] = FetchTask]
    /\ ops' = ops + 1
    /\ tog' = TogForeign
    /\ UNCHANGED <<serverVars, propVars, listVars, draftVars, alerts>>

\* fetchPosts, lines 40-41: the list request is answered
FetchGet(t) ==
    /\ tasks[t].pc = "get"
    /\ tasks' = [tasks EXCEPT ![t].pc = "got",
                              ![t].data = ListPosts(store, viewMode, currentUser, dramaSlug)]
    /\ UNCHANGED <<serverVars, propVars, listVars, draftVars, alerts, ops, tog>>

\* fetchPosts, lines 71-75: fetch(url) rejects
FetchGetFails(t) ==
    /\ tasks[t].pc = "get"
    /\ loading' = FALSE
    /\ tasks' = [tasks EXCEPT ![t] = IdleTask]
    /\ tog' = TogEnd(t, FALSE)
    /\ UNCHANGED <<serverVars, propVars, posts, userVotes, dramaColors, draftVars, alerts, ops>>

\* fetchPosts, lines 42-70 up to the first pending lookup
FetchApply(t) ==
    /\ tasks[t].pc = "got"
    /\ posts' = tasks[t].data
    /\ IF viewMode = "all" /\ UniqueDramas(tasks[t].data) # {}
       THEN /\ tasks' = [tasks EXCEPT ![t].pc = "colors",
                                      ![t].pending = UniqueDramas(tasks[t].data),
                                      ![t].colors = NoColors]
            /\ UNCHANGED <<loading, userVotes, dramaColors, tog>>
       ELSE /\ dramaColors' = IF viewMode = "all" THEN NoColors ELSE dramaColors
            /\ userVotes' = VotesOf(tasks[t].data, currentUser)
            /\ loading' = FALSE
            /\ tasks' = [tasks EXCEPT ![t] = IdleTask]
            /\ tog' = TogEnd(t, TRUE)
    /\ UNCHANGED <<serverVars, propVars, draftVars, alerts, ops>>

\* fetchPosts, lines 52-55 and, after the last lookup, lines 60-70 and 74
ColorLookup(t, slug, color) ==
    /\ tasks[t].pc = "colors" /\ slug \in tasks[t].pending
    /\ LET colors == [tasks[t].colors EXCEPT ![slug] = color]
       IN  IF tasks[t].pending = {slug}
           THEN /\ dramaColors' = colors
                /\ userVotes' = VotesOf(tasks[t].data, currentUser)
                /\ loading' = FALSE
                /\ tasks' = [tasks EXCEPT ![t] = IdleTask]
                /\ tog' = TogEnd(t, TRUE)
           ELSE /\ tasks' = [tasks EXCEPT ![t].pending = tasks[t].pending \ {slug},
                                          ![t].colors = colors]
                /\ UNCHANGED <<loading, userVotes, dramaColors, tog>>
    /\ UNCHANGED <<serverVars, propVars, posts, draftVars, alerts, ops>>

\* fetchPosts, lines 49-58 rejecting: fetch or colorRes.json() throws; lines 71-75
ColorLookupThrows(t, slug) ==
    /\ tasks[t].pc = "colors" /\ slug \in tasks[t].pending
    /\ loading' = FALSE
    /\ tasks' = [tasks EXCEPT ![t] = IdleTask]
    /\ tog' = TogEnd(t, TRUE)
    /\ UNCHANGED <<serverVars, propVars, posts, userVotes, dramaColors, draftVars, alerts, ops>>

\* handleEdit
HandleEdit(id) ==
    /\ Displayed(id) /\ editingPost # id /\ ops < MaxOps
    /\ \E d \in posts : d._id = id /\ d.author = currentUser
    /\ \E d \in posts : /\ d._id = id
                        /\ editingPost' = id
                        /\ editTitle' = d.title
                        /\ editContent' = d.content
    /\ ops' = ops + 1
    /\ UNCHANGED <<serverVars, propVars, listVars, alerts, tasks, tog>>

\* handleCancelEdit
HandleCancelEdit ==
    /\ Displayed(editingPost) /\ ops < MaxOps
    /\ editingPost' = NoPost /\ editTitle' = "" /\ editContent' = ""
    /\ ops' = ops + 1
    /\ UNCHANGED <<serverVars, propVars, listVars, alerts, tasks, tog>>

\* onChange of the draft inputs
SetEditTitle(v) ==
    /\ Displayed(editingPost) /\ editTitle # v
    /\ editTitle' = v
    /\ UNCHANGED <<serverVars, propVars, listVars, editingPost, editContent, alerts, tasks, ops, tog>>

SetEditContent(v) ==
    /\ Displayed(editingPost) /\ editContent # v
    /\ editContent' = v
    /\ UNCHANGED <<serverVars, propVars, listVars, editingPost, editTitle, alerts, tasks, ops, tog>>

\* handleSaveEdit, lines 96-105: the request leaves
HandleSaveEdit(t) ==
    /\ Displayed(editingPost) /\ Lowest(t) /\ ops < MaxOps
    /\ tasks' = [tasks EXCEPT ![t] = [IdleTask EXCEPT !.kind = "save", !.pc = "req",
                                                      !.postId = editingPost,
                                                      !.title = editTitle,
                                                      !.content = editContent]]
    /\ ops' = ops + 1
    /\ tog' = TogForeign
    /\ UNCHANGED <<serverVars, propVars, listVars, draftVars, alerts>>

\* handleDelete, lines 120-125 with the confirm() accepted
HandleDelete(t, id) ==
    /\ Displayed(id) /\ editingPost # id /\ Lowest(t) /\ ops < MaxOps
    /\ \E d \in posts : d._id = id /\ d.author = currentUser
    /\ tasks' = [tasks EXCEPT ![t] = [IdleTask EXCEPT !.kind = "delete", !.pc = "req",
                                                      !.postId = id]]
    /\ ops' = ops + 1
    /\ tog' = TogForeign
    /\ UNCHANGED <<serverVars, propVars, listVars, draftVars, alerts>>

\* handleVote, lines 136-151: the request leaves
HandleVote(t, postId, vote) ==
    /\ Displayed(postId) /\ Lowest(t) /\ ops < MaxOps
    /\ tasks' = [tasks EXCEPT ![t] = [IdleTask EXCEPT !.kind = "vote", !.pc = "req",
                                                      !.postId = postId, !.dir = vote,
                                                      !.vote = NewVote(userVotes, postId, vote)]]
    /\ ops' = ops + 1
    /\ tog' = TogClick(t, postId, vote)
    /\ UNCHANGED <<serverVars, propVars, listVars, draftVars, alerts>>

Ok(status) == status >= 200 /\ status <= 299

\* the route handler answers the request of a handler of the component
Handled(t) ==
    IF tasks[t].kind = "vote" THEN VOTE(store, tasks[t].postId, currentUser, tasks[t].vote)
    ELSE IF tasks[t].kind = "save"
    THEN PUT(store, tasks[t].postId, tasks[t].title, tasks[t].content, clock + 1)
    ELSE DELETE(store, tasks[t].postId)

Serve(t) ==
    /\ tasks[t].pc = "req"
    /\ LET r == Handled(t)
       IN  /\ (tasks[t].kind = "save" /\ r.status = 200) => clock < MaxClock
           /\ store' = r.store
           /\ clock' = IF tasks[t].kind = "save" /\ r.status = 200 THEN clock + 1 ELSE clock
           /\ http' = IF tasks[t].kind = "vote"
                      THEN Log("VOTE", tasks[t].postId, Undefined, Undefined, currentUser,
                               tasks[t].vote, r.status)
                      ELSE IF tasks[t].kind = "save"
                      THEN Log("PUT", tasks[t].postId, tasks[t].title, tasks[t].content, "",
                               Null, r.status)
                      ELSE Log("DELETE", tasks[t].postId, Undefined, Undefined, "", Null,
                               r.status)
           /\ tasks' = [tasks EXCEPT ![t].pc = "resp", ![t].status = r.status]
           /\ tog' = IF tog.task = t \/ r.store = store THEN tog ELSE TogForeign
    /\ UNCHANGED <<propVars, listVars, draftVars, alerts, ops>>

\* fetch() of a mutation rejects: the request never reached a route handler
RequestFails(t) ==
    /\ tasks[t].pc = "req"
    /\ tasks' = [tasks EXCEPT ![t].pc = "resp", ![t].status = 0]
    /\ UNCHANGED <<serverVars, propVars, listVars, draftVars, alerts, ops, tog>>

\* mutant: the re-fetch sits in a finally block
VoteResponseAlwaysRefetches(t) ==
    /\ tasks[t].kind = "vote" /\ tasks[t].pc = "resp"
    /\ tasks' = [tasks EXCEPT ![t].pc = "get"]
    /\ tog' = tog
    /\ UNCHANGED <<serverVars, propVars, listVars, draftVars, alerts, ops>>

\* handleVote, lines 153-160
VoteResponse(t) ==
    /\ tasks[t].kind = "vote" /\ tasks[t].pc = "resp"
    /\ IF Ok(tasks[t].status)
       THEN /\ tasks' = [tasks EXCEPT ![t].pc = "get"]
            /\ tog' = tog
       ELSE /\ tasks' = [tasks EXCEPT ![t] = IdleTask]
            /\ tog' = TogEnd(t, FALSE)
    /\ UNCHANGED <<serverVars, propVars, listVars, draftVars, alerts, ops>>

\* mutant: the draft is cleared before response.ok is looked at
SaveResponseClearsFirst(t) ==
    /\ tasks[t].kind = "save" /\ tasks[t].pc = "resp"
    /\ editingPost' = NoPost /\ editTitle' = "" /\ editContent' = ""
    /\ IF Ok(tasks[t].status)
       THEN /\ tasks' = [tasks EXCEPT ![t].pc = "get"]
            /\ UNCHANGED alerts
       ELSE /\ alerts' = 1 - alerts
            /\ tasks' = [tasks EXCEPT ![t] = IdleTask]
    /\ UNCHANGED <<serverVars, propVars, listVars, ops, tog>>

\* handleSaveEdit, lines 107-116
SaveResponse(t) ==
    /\ tasks[t].kind = "save" /\ tasks[t].pc = "resp"
    /\ IF Ok(tasks[t].status)
       THEN /\ editingPost' = NoPost /\ editTitle' = "" /\ editContent' = ""
            /\ tasks' = [tasks EXCEPT ![t].pc = "get"]
            /\ UNCHANGED alerts
       ELSE /\ alerts' = 1 - alerts
            /\ tasks' = [tasks EXCEPT ![t] = IdleTask]
            /\ UNCHANGED draftVars
    /\ UNCHANGED <<serverVars, propVars, listVars, ops, tog>>

\* handleDelete, lines 127-132
DeleteResponse(t) ==
    /\ tasks[t].kind = "delete" /\ tasks[t].pc = "resp"
    /\ IF Ok(tasks[t].status)
       THEN /\ tasks' = [tasks EXCEPT ![t].pc = "get"]
            /\ UNCHANGED alerts
       ELSE /\ alerts' = 1 - alerts
            /\ tasks' = [tasks EXCEPT ![t] = IdleTask]
    /\ UNCHANGED <<serverVars, propVars, listVars, draftVars, ops, tog>>

\* requests of the other clients of the forum
Other ==
    /\ ops < MaxOps
    /\ \/ \E id \in PostIds, v \in {1, -1} : ApiVote(id, "u2", v)
       \/ \E id \in PostIds : ApiDelete(id)
    /\ ops' = ops + 1
    /\ tog' = IF store' = store THEN tog ELSE TogForeign
    /\ UNCHANGED <<propVars, listVars, draftVars, alerts, tasks>>

Init ==
    /\ ServerInit
    /\ viewMode \in {"all", "my-posts", "drama"}
    /\ dramaSlug = IF viewMode = "drama" THEN "d1" ELSE ""
    /\ currentUser = "u1"
    /\ posts = {} /\ loading = TRUE /\ userVotes = <<>> /\ dramaColors = NoColors
    /\ editingPost = NoPost /\ editTitle = "" /\ editContent = ""
    /\ alerts = 0
    /\ tasks = [t \in Slots |-> IF t = 1 THEN FetchTask ELSE IdleTask]
    /\ ops = 0
    /\ tog = TogNone

Next ==
    \/ \E t \in Slots : Effect(t)
    \/ \E t \in Slots : FetchGet(t)
    \/ \E t \in Slots : FetchGetFails(t)
    \/ \E t \in Slots : FetchApply(t)
    \/ \E t \in Slots, s \in Slugs : \E c \in {Undefined, MemberColor(s)} : ColorLookup(t, s, c)
    \/ \E t \in Slots, s \in Slugs : ColorLookupThrows(t, s)
    \/ \E id \in PostIds : HandleEdit(id)
    \/ HandleCancelEdit
    \/ \E v \in {"", "a"} : SetEditTitle(v)
    \/ \E v \in {"", "x"} : SetEditContent(v)
    \/ \E t \in Slots : HandleSaveEdit(t)
    \/ \E t \in Slots, id \in PostIds : HandleDelete(t, id)
    \/ \E t \in Slots, id \in PostIds, v \in {1, -1} : HandleVote(t, id, v)
    \/ \E t \in Slots : Serve(t)
    \/ \E t \in Slots : RequestFails(t)
    \/ \E t \in Slots : VoteResponse(t)
    \/ \E t \in Slots : SaveResponse(t)
    \/ \E t \in Slots : DeleteResponse(t)
    \/ Other

Spec == Init /\ [][Next]_vars

\* the route handlers alone, under the requests of any HTTP client
ServerStart == Init /\ viewMode = "all"

ServerSpec == ServerStart /\ [][ServerNext]_vars

\* ------------------------------------------------------------- properties
\* a step in which a route handler answered a request of the given method
Answered(method) == http' # http /\ http'.method = method

\* C1: every stored post's vote count equals the sum of the vote values of its
\* voter records, in every state that follows a vote request (and every other
\* request): the list and the count never disagree.
CountIsSumOfVoters == \A d \in store : d.votes = SumVotes(d.voters)

\* C1 witness: a vote request was answered and left a post with two voter records
CountIsSumWitness ==
    /\ http.method = "VOTE" /\ http.status = 200
    /\ \E d \in store : Cardinality(d.voters) = 2 /\ d.votes = 2

\* C5: a PUT whose title or content is empty or missing is answered 400 and
\* leaves the collection as it was, whatever the id and the collection.
PutRejectsEmptyFields ==
    [][(Answered("PUT") /\ (Falsy(http'.title) \/ Falsy(http'.content)))
       => (http'.status = 400 /\ store' = store)]_vars

\* C5 witness: such a PUT on the id of a stored post was answered 400
PutRejectsEmptyWitness ==
    /\ http.method = "PUT" /\ http.status = 400
    /\ Falsy(http.title)
    /\ FindById(store, http.id) # {}

\* C6 (as claimed): a DELETE for an id matching no stored post is answered 404 and
\* changes nothing; a DELETE for a stored id removes exactly that post with success.
DeleteAnswers404OrRemoves ==
    [][(Answered("DELETE") /\ http'.id # EmptyId)
       => IF FindById(store, http'.id) = {}
          THEN http'.status = 404 /\ store' = store
          ELSE http'.status = 200 /\ store' = store \ FindById(store, http'.id)]_vars

\* C9: a PUT answered with success changes only title, content and editedAt of
\* the post with that id; votes, voters, author and dramaSlug of every post and
\* every field of the other posts stay; a PUT answered 400 or 404 changes nothing.
PutChangesOnlyTitleContent ==
    [][Answered("PUT")
       => IF http'.status = 200
          THEN /\ {d._id : d \in store'} = {d._id : d \in store}
               /\ Cardinality(store') = Cardinality(store)
               /\ \A d \in store : \E e \in store' :
                     /\ e._id = d._id
                     /\ e.votes = d.votes /\ e.voters = d.voters
                     /\ e.author = d.author /\ e.dramaSlug = d.dramaSlug
                     /\ (d._id # http'.id => e = d)
                     /\ (d._id = http'.id => e.title = http'.title /\ e.content = http'.content)
          ELSE store' = store]_vars

\* C9 witness: a post carrying votes was edited
PutChangesOnlyWitness ==
    /\ http.method = "PUT" /\ http.status = 200
    /\ \E d \in store : d._id = http.id /\ d.editedAt > 0 /\ d.title = "a" /\ d.voters # {}
    /\ \E d \in store : d._id # http.id /\ d.voters # {}

\* a step in which the handler in slot t consumed the response to its request
Responded(t, kind) ==
    tasks[t].kind = kind /\ tasks[t].pc = "resp" /\ tasks'[t].pc # "resp"

Fetching(t) == tasks[t].pc \in {"get", "got", "colors"}

\* C2 (as claimed): with every request answered with success and each activation
\* made after the previous one settled, two activations of the same direction on
\* a post without a vote of the user leave count and voter records as before.
DoubleToggleRestores ==
    tog.stage = 4 =>
        /\ FindById(store, tog.postId) # {}
        /\ \A d \in FindById(store, tog.postId) :
              d.votes = tog.votes /\ d.voters = tog.voters

VoteAlwaysRefetches ==
    [][\A t \in Slots : Responded(t, "vote") => tasks'[t].pc = "get"]_vars

\* C4 (amended): the handler re-fetches the list exactly when the response is ok;
\* after a failed request it ends without a re-fetch.
VoteRefetchesOnSuccessOnly ==
    [][\A t \in Slots :
         Responded(t, "vote")
         => IF Ok(tasks[t].status) THEN tasks'[t].pc = "get" ELSE tasks'[t] = IdleTask]_vars

\* C4 witness: a vote was answered with success and its handler is re-fetching
VoteRefetchWitness ==
    \E t \in Slots : /\ tasks[t].kind = "vote" /\ tasks[t].pc = "got"
                     /\ tasks[t].status = 200
                     /\ \E d \in tasks[t].data : VoterOf(d, currentUser) # {}

\* C7 (as claimed): when a fetch in 'all' mode ends, every community whose
\* lookup had succeeded has its color in dramaColors, also when the lookup of
\* another community failed; the posts are rendered.
SucceededColorsAreSet ==
    [][\A t \in Slots :
         (tasks[t].pc = "colors" /\ tasks'[t].pc # "colors")
         => /\ loading' = FALSE
            /\ \A s \in Slugs :
                  tasks[t].colors[s] # Undefined => dramaColors'[s] = tasks[t].colors[s]]_vars

\* C8: a save issues the update request with the draft's title and content; a
\* successful response clears the draft and starts the re-fetch; a failed one
\* shows an alert, leaves editingPost, editTitle and editContent as they were and
\* starts no re-fetch.
SaveClearsOrKeepsDraft ==
    [][\A t \in Slots :
         /\ (tasks[t].kind # "save" /\ tasks'[t].kind = "save")
            => /\ tasks'[t].pc = "req"
               /\ tasks'[t].postId = editingPost
               /\ tasks'[t].title = editTitle /\ tasks'[t].content = editContent
         /\ Responded(t, "save")
            => IF tasks[t].status = 200
               THEN /\ editingPost' = NoPost /\ editTitle' = "" /\ editContent' = ""
                    /\ tasks'[t].pc = "get"
                    /\ alerts' = alerts
               ELSE /\ alerts' # alerts
                    /\ editingPost' = editingPost
                    /\ editTitle' = editTitle /\ editContent' = editContent
                    /\ tasks'[t] = IdleTask]_vars

\* C8 witness: a save with an emptied title was answered 400, the alert was
\* shown and the draft is still open with the user's input
SaveKeepsDraftWitness ==
    /\ http.method = "PUT" /\ http.status = 400
    /\ alerts = 1
    /\ editingPost = "p1" /\ editTitle = "" /\ editContent = "x"
    /\ \A t \in Slots : FreeSlot(t)

\* C10 (as claimed): with no fetch in flight, userVotes holds for every
\* displayed post the current user's vote of that post's voter list, and no
\* entry where the user has no voter record.
UserVotesAgreeWithPosts ==
    (\A t \in Slots : ~Fetching(t))
    => \A d \in posts : UserVote(userVotes, d._id) = OldValue(d, currentUser)

====
